---- MODULE Spec2Model ----
(***************************************************************************)
(* DocxGenerator of src/app.py: the markdown-to-document converter.        *)
(*                                                                         *)
(* A Python str is modelled as a sequence of one-character strings, so     *)
(* that str.count, str.replace, str.strip, str.split, str.startswith and   *)
(* the two regular expressions of the class are computed character by      *)
(* character, as the interpreter computes them.                            *)
(***************************************************************************)
EXTENDS Integers, Sequences, FiniteSets, TLC

VARIABLES doc, headings, pc, markdown_text, sections, idx,
          current_solution_heading, start, ncalls, preface,
          para_text, para_runs, replay_runs, fpc

vars == <<doc, headings, pc, markdown_text, sections, idx,
          current_solution_heading, start, ncalls, preface,
          para_text, para_runs, replay_runs, fpc>>

(***************************************************************************)
(* Bounds of the model.                                                    *)
(***************************************************************************)
\* lines per input text of Spec
MaxLines == 3
\* markdown_to_word calls on one generator in SpecShare
MaxCalls == 2
\* lines per input text of SpecShare
MaxShareLines == 2
\* characters per content string of SpecInline
MaxContent == 10

(***************************************************************************)
(* Python str primitives.                                                  *)
(***************************************************************************)
NL == "\n"

\* the characters str.strip() removes, among those the inputs use
IsSpace(c) == c \in {" ", NL, "\t"}

\* the characters \d matches, among those the inputs use
IsDigit(c) == c \in {"0", "1", "2", "3", "4", "5", "6", "7", "8", "9"}

\* s[a:b] with 1-based inclusive positions, empty when b < a
Slice(s, a, b) == IF b < a THEN <<>> ELSE SubSeq(s, a, b)

\* s[n:]
DropFirst(s, n) == Slice(s, n + 1, Len(s))

\* s.startswith(p)
StartsWith(s, p) == Len(s) >= Len(p) /\ Slice(s, 1, Len(p)) = p

\* s.endswith(p)
EndsWith(s, p) == Len(s) >= Len(p) /\ Slice(s, Len(s) - Len(p) + 1, Len(s)) = p

\* s.count(c) for a one-character c
Count(s, c) == Cardinality({k \in 1..Len(s) : s[k] = c})

\* s.replace(c, '') for a one-character c
Remove(s, c) == SelectSeq(s, LAMBDA x : x # c)

\* s.strip()
Strip(s) ==
    LET keep == {k \in 1..Len(s) : ~IsSpace(s[k])}
    IN  IF keep = {} THEN <<>>
        ELSE Slice(s, CHOOSE k \in keep : \A m \in keep : k <= m,
                      CHOOSE k \in keep : \A m \in keep : k >= m)

\* sub in s
Contains(s, sub) ==
    \E k \in 1..(Len(s) - Len(sub) + 1) : Slice(s, k, k + Len(sub) - 1) = sub

\* s.split(c) for a one-character c
RECURSIVE Split(_, _)
Split(s, c) ==
    LET hits == {k \in 1..Len(s) : s[k] = c}
    IN  IF hits = {} THEN <<s>>
        ELSE LET k == CHOOSE x \in hits : \A y \in hits : x <= y
             IN  <<Slice(s, 1, k - 1)>> \o Split(DropFirst(s, k), c)

\* the concatenation of a sequence of strings
RECURSIVE Concat(_)
Concat(ss) == IF ss = <<>> THEN <<>> ELSE Head(ss) \o Concat(Tail(ss))

\* sep.join(ss) for a one-character sep
RECURSIVE Join(_, _)
Join(ss, sep) ==
    IF ss = <<>> THEN <<>>
    ELSE IF Len(ss) = 1 THEN Head(ss)
    ELSE Head(ss) \o <<sep>> \o Join(Tail(ss), sep)

(***************************************************************************)
(* The regular expressions of the class.                                   *)
(***************************************************************************)
\* the least element of a non-empty set of positions
Least(S) == CHOOSE k \in S : \A m \in S : k <= m

\* \*\*.+?\*\* tried at position k: the positions where its closing ** can start
\* ('.' matches any character but a newline, and .+? at least one)
BoldClosings(s, k) ==
    {j \in (k + 3)..(Len(s) - 1) :
        /\ s[j] = "*" /\ s[j + 1] = "*"
        /\ \A m \in (k + 2)..(j - 1) : s[m] # NL}

\* the positions where \*\*.+?\*\* matches
BoldMatches(s) ==
    {k \in 1..(Len(s) - 4) :
        s[k] = "*" /\ s[k + 1] = "*" /\ BoldClosings(s, k) # {}}

\* re.split(r'(\*\*.+?\*\*)', s): leftmost match, lazy closing, the captured
\* match kept between the pieces
RECURSIVE ReSplitBold(_)
ReSplitBold(s) ==
    IF BoldMatches(s) = {} THEN <<s>>
    ELSE LET k == Least(BoldMatches(s))
             j == Least(BoldClosings(s, k))
         IN  <<Slice(s, 1, k - 1), Slice(s, k, j + 1)>>
                 \o ReSplitBold(DropFirst(s, j + 1))

\* the position after the line that holds position k ('$' under re.MULTILINE)
LineEnd(s, k) ==
    LET nls == {m \in k..Len(s) : s[m] = NL}
    IN  IF nls = {} THEN Len(s) + 1 ELSE Least(nls)

\* the positions where ^#+.+$ matches under re.MULTILINE: the start of a line
\* that begins with '#' and holds at least one more character
HeadingMatches(s) ==
    {k \in 1..Len(s) :
        /\ k = 1 \/ s[k - 1] = NL
        /\ s[k] = "#"
        /\ LineEnd(s, k) - k >= 2}

\* re.split(r'(^#+.+$)', s, flags=re.MULTILINE)
RECURSIVE ReSplitHeading(_)
ReSplitHeading(s) ==
    IF HeadingMatches(s) = {} THEN <<s>>
    ELSE LET k == Least(HeadingMatches(s))
             e == LineEnd(s, k)
         IN  <<Slice(s, 1, k - 1), Slice(s, k, e - 1)>>
                 \o ReSplitHeading(DropFirst(s, e - 1))

\* the length of the match of ^\d+\. at the start of s, 0 when there is none
NumberedPrefix(s) ==
    LET nondigit == {k \in 1..Len(s) : ~IsDigit(s[k])}
        d == IF nondigit = {} THEN Len(s) ELSE Least(nondigit) - 1
    IN  IF d >= 1 /\ Len(s) >= d + 2 /\ s[d + 1] = "." /\ s[d + 2] = " "
        THEN d + 2 ELSE 0

(***************************************************************************)
(* DocxGenerator._process_text_segments: the runs added to a paragraph.    *)
(***************************************************************************)
\* one segment of the split: the run paragraph.add_run makes of it
SegmentRun(segment) ==
    IF StartsWith(segment, <<"*", "*">>) /\ EndsWith(segment, <<"*", "*">>)
    THEN [text |-> Slice(segment, 3, Len(segment) - 2), bold |-> TRUE]
    ELSE [text |-> segment, bold |-> FALSE]

process_text_segments(text) ==
    LET segs == ReSplitBold(text)
    IN  [k \in 1..Len(segs) |-> SegmentRun(segs[k])]

\* the texts of a paragraph's runs, concatenated in order
RunsText(runs) == Concat([k \in 1..Len(runs) |-> runs[k].text])

(***************************************************************************)
(* The document model: python-docx blocks, and the generator's operations. *)
(***************************************************************************)
Solution == <<"S", "o", "l", "u", "t", "i", "o", "n">>
HowItWorks == <<"H", "o", "w", " ", "I", "t", " ", "W", "o", "r", "k", "s">>

\* the block doc.add_heading(text, level) appends; source is the section it
\* was made from
HeadingBlock(text, level, source) ==
    [style |-> "Heading", level |-> level, text |-> text, runs |-> <<>>,
     content |-> <<>>, source |-> source]

\* the block doc.add_paragraph(style) appends once _process_text_segments has
\* added runs to it; content is the string given to _process_text_segments
\* and source the line it was made from
ParagraphBlock(style, runs, content, source) ==
    [style |-> style, level |-> 0, text |-> <<>>, runs |-> runs,
     content |-> content, source |-> source]

\* the block doc.add_paragraph(text) appends: a Normal paragraph with one
\* plain run, or no run for an empty text
TextParagraph(text) ==
    [style |-> "Normal", level |-> 0, text |-> <<>>,
     runs |-> IF text = <<>> THEN <<>> ELSE <<[text |-> text, bold |-> FALSE]>>,
     content |-> <<>>, source |-> <<>>]

\* the titles of the application's own headings
UserStoryName == <<"U", "s", "e", "r", " ", "S", "t", "o", "r", "y", " ", "N", "a", "m", "e">>
UserStoryDescription == <<"U", "s", "e", "r", " ", "S", "t", "o", "r", "y", " ", "D", "e", "s", "c", "r", "i", "p", "t", "i", "o", "n">>
AdditionalContext == <<"A", "d", "d", "i", "t", "i", "o", "n", "a", "l", " ", "C", "o", "n", "t", "e", "x", "t", " ", "&", " ", "I", "n", "s", "t", "r", "u", "c", "t", "i", "o", "n", "s">>

\* current_solution_heading: None, or the text of a heading
None == [some |-> FALSE, text |-> <<>>]
Some(text) == [some |-> TRUE, text |-> text]

\* Python's truth value of current_solution_heading
Truthy(h) == h.some /\ h.text # <<>>

\* DocxGenerator._add_heading_to_toc
add_heading_to_toc(toc, level, text) ==
    IF level > 1 THEN Append(toc, <<level, text>>) ELSE toc

\* heading_level = section.count('#')
heading_level(section) == Count(section, "#")

\* heading_text = section.replace('#', '').strip()
heading_text(section) == Strip(Remove(section, "#"))

\* solution_heading_after with the heading scoped to its own section: any
\* other heading clears it
solution_heading_nearest(h, text) ==
    IF Contains(text, Solution) THEN Some(text) ELSE None

\* current_solution_heading after the heading: set by a heading that
\* contains "Solution", otherwise left as it is
solution_heading_after(h, text) ==
    IF Contains(text, Solution) THEN Some(text) ELSE h

\* adjusted_level without the min(heading_level, 2)
adjusted_level_unclamped(level, text, h) ==
    IF Contains(text, Solution) THEN level
    ELSE IF Contains(text, HowItWorks) /\ Truthy(h) THEN 3
    ELSE level

\* adjusted_level: min(heading_level, 2), or 3 for a "How It Works" heading
\* under a set current_solution_heading
adjusted_level(level, text, h) ==
    IF Contains(text, Solution) THEN (IF level < 2 THEN level ELSE 2)
    ELSE IF Contains(text, HowItWorks) /\ Truthy(h) THEN 3
    ELSE (IF level < 2 THEN level ELSE 2)

\* the block a non-blank line of a body section becomes
LineBlock(line) ==
    IF StartsWith(Strip(line), <<"-", " ">>)
    THEN LET c == DropFirst(line, 2)
         IN  ParagraphBlock("List Bullet", process_text_segments(c), c, line)
    ELSE IF NumberedPrefix(Strip(line)) > 0
    THEN LET c == DropFirst(line, NumberedPrefix(line))
         IN  ParagraphBlock("List Number", process_text_segments(c), c, line)
    ELSE ParagraphBlock("Normal", process_text_segments(line), line, line)

\* the blocks of a body section: one for each line that is not blank
BodyBlocks(section) ==
    LET lines == SelectSeq(Split(section, NL), LAMBDA l : Strip(l) # <<>>)
    IN  [k \in 1..Len(lines) |-> LineBlock(lines[k])]

(***************************************************************************)
(* The inputs.                                                             *)
(***************************************************************************)
\* '# T'
TitleLine == <<"#", " ", "T">>
\* '## Solution'
SolutionLine == <<"#", "#", " ", "S", "o", "l", "u", "t", "i", "o", "n">>
\* '### How It Works'
HowLine == <<"#", "#", "#", " ", "H", "o", "w", " ", "I", "t", " ", "W", "o", "r", "k", "s">>
\* '## Solution How It Works'
BothLine == <<"#", "#", " ", "S", "o", "l", "u", "t", "i", "o", "n", " ", "H", "o", "w", " ", "I", "t", " ", "W", "o", "r", "k", "s">>
\* '# C# a'
SharpLine == <<"#", " ", "C", "#", " ", "a">>
\* '#######a'
DeepLine == <<"#", "#", "#", "#", "#", "#", "#", "a">>
\* '#'
HashLine == <<"#">>
\* '- x'
BulletLine == <<"-", " ", "x">>
\* ' - x'
IndentedBulletLine == <<" ", "-", " ", "x">>
\* '- '
EmptyBulletLine == <<"-", " ">>
\* '12. x'
NumberedLine == <<"1", "2", ".", " ", "x">>
\* ' 1. x'
IndentedNumberedLine == <<" ", "1", ".", " ", "x">>
\* 'a **b**'
BoldLine == <<"a", " ", "*", "*", "b", "*", "*">>
\* ' '
BlankLine == <<" ">>

Lines == {TitleLine, SolutionLine, HowLine, BothLine, SharpLine, DeepLine, HashLine, BulletLine, IndentedBulletLine, EmptyBulletLine, NumberedLine, IndentedNumberedLine, BoldLine, BlankLine}

ShareLines == {SolutionLine, HowLine, BulletLine}

\* the texts of at most n lines drawn from L, joined by newlines
TextsOf(L, n) ==
    {Join(ls, NL) : ls \in UNION {[1..m -> L] : m \in 0..n}}

Texts == TextsOf(Lines, MaxLines)

ShareTexts == TextsOf(ShareLines, MaxShareLines)

\* the form's fields: the user story name, its description, and the
\* additional prompt (empty, blank, or given)
Names == {<<>>, <<"N">>}
Descriptions == {<<>>, <<"D">>}
Prompts == {<<>>, <<" ">>, <<"P">>}

\* the content strings of at most n characters over {'*', 'a'}
Contents == UNION {[1..m -> {"*", "a"}] : m \in 0..MaxContent}

(***************************************************************************)
(* The state machine: one DocxGenerator, and markdown_to_word stepping     *)
(* through the sections of its text.                                       *)
(***************************************************************************)
inline_vars == <<para_text, para_runs, replay_runs, fpc>>

call_vars == <<markdown_text, start, ncalls, preface>>

\* DocxGenerator.__init__: an empty document and an empty headings list
Constructed ==
    /\ doc = <<>>
    /\ headings = <<>>
    /\ pc = "idle"
    /\ markdown_text = <<>>
    /\ sections = <<>>
    /\ idx = 0
    /\ current_solution_heading = None
    /\ start = 0
    /\ ncalls = 0
    /\ preface = 0

Init ==
    /\ Constructed
    /\ para_text = <<>>
    /\ para_runs = <<>>
    /\ replay_runs = <<>>
    /\ fpc = "off"

\* the application, on the generator it has just constructed, appends its own
\* blocks straight to doc_generator.doc: the user story name, and the
\* description and the additional context when they are given. It records no
\* TOC entry for them. preface counts these blocks.
Preamble ==
    /\ pc = "idle"
    /\ ncalls = 0
    /\ preface = 0
    /\ \E user_story_name \in Names, user_story_description \in Descriptions,
          additional_prompt \in Prompts :
          doc' = doc
              \o <<HeadingBlock(UserStoryName, 2, <<>>),
                    TextParagraph(user_story_name)>>
              \o (IF user_story_description # <<>>
                  THEN <<HeadingBlock(UserStoryDescription, 2, <<>>),
                         TextParagraph(user_story_description)>>
                  ELSE <<>>)
              \o (IF Strip(additional_prompt) # <<>>
                  THEN <<HeadingBlock(AdditionalContext, 2, <<>>),
                         TextParagraph(additional_prompt)>>
                  ELSE <<>>)
    /\ preface' = Len(doc')
    /\ UNCHANGED <<headings, pc, markdown_text, sections, idx,
                   current_solution_heading, start, ncalls, inline_vars>>

\* markdown_to_word(t) is called, for the n-th time at most, on the generator
\* the application has prepared: current_solution_heading = None and the text
\* is split into sections
Call(T, n) ==
    /\ pc = "idle"
    /\ preface > 0
    /\ ncalls < n
    /\ \E t \in T :
        /\ markdown_text' = t
        /\ sections' = ReSplitHeading(t)
    /\ idx' = 1
    /\ current_solution_heading' = None
    /\ start' = Len(doc)
    /\ ncalls' = ncalls + 1
    /\ pc' = "loop"
    /\ UNCHANGED <<doc, headings, preface, inline_vars>>

\* the one call the application makes on a generator it has just constructed
Convert == Call(Texts, 1)

\* further calls on the same generator
ConvertAgain == Call(ShareTexts, MaxCalls)

\* a section that is blank once stripped: continue
SkipSection ==
    /\ pc = "loop"
    /\ idx <= Len(sections)
    /\ Strip(sections[idx]) = <<>>
    /\ idx' = idx + 1
    /\ UNCHANGED <<doc, headings, pc, sections, current_solution_heading,
                   call_vars, inline_vars>>

\* a section that starts with '#'
HeadingSection ==
    /\ pc = "loop"
    /\ idx <= Len(sections)
    /\ Strip(sections[idx]) # <<>>
    /\ StartsWith(sections[idx], <<"#">>)
    /\ LET section == sections[idx]
           level == heading_level(section)
           text == heading_text(section)
       IN  /\ headings' = add_heading_to_toc(headings, level, text)
           /\ current_solution_heading' =
                  solution_heading_after(current_solution_heading, text)
           /\ doc' = Append(doc,
                  HeadingBlock(text,
                      adjusted_level(level, text, current_solution_heading),
                      section))
    /\ idx' = idx + 1
    /\ UNCHANGED <<pc, sections, call_vars, inline_vars>>

\* any other section: its lines
BodySection ==
    /\ pc = "loop"
    /\ idx <= Len(sections)
    /\ Strip(sections[idx]) # <<>>
    /\ ~StartsWith(sections[idx], <<"#">>)
    /\ doc' = doc \o BodyBlocks(sections[idx])
    /\ idx' = idx + 1
    /\ UNCHANGED <<headings, pc, sections, current_solution_heading,
                   call_vars, inline_vars>>

\* the loop is over: markdown_to_word returns and its locals are gone
Return ==
    /\ pc = "loop"
    /\ idx > Len(sections)
    /\ pc' = "idle"
    /\ sections' = <<>>
    /\ idx' = 0
    /\ current_solution_heading' = None
    /\ UNCHANGED <<doc, headings, call_vars, inline_vars>>

\* the application constructs a new DocxGenerator for its next document
New ==
    /\ pc = "idle"
    /\ ncalls > 0
    /\ doc' = <<>>
    /\ headings' = <<>>
    /\ pc' = "idle"
    /\ markdown_text' = <<>>
    /\ sections' = <<>>
    /\ idx' = 0
    /\ current_solution_heading' = None
    /\ start' = 0
    /\ ncalls' = 0
    /\ preface' = 0
    /\ UNCHANGED inline_vars

Next ==
    \/ Preamble
    \/ Convert
    \/ SkipSection
    \/ HeadingSection
    \/ BodySection
    \/ Return
    \/ New

Spec == Init /\ [][Next]_vars

NextShare ==
    \/ Preamble
    \/ ConvertAgain
    \/ SkipSection
    \/ HeadingSection
    \/ BodySection
    \/ Return
    \/ New

SpecShare == Init /\ [][NextShare]_vars

(***************************************************************************)
(* _process_text_segments alone, on every content string, and once more on *)
(* the text of the runs it produced.                                       *)
(***************************************************************************)
InitInline ==
    /\ Constructed
    /\ para_text \in Contents
    /\ para_runs = <<>>
    /\ replay_runs = <<>>
    /\ fpc = "new"

\* _process_text_segments(paragraph, para_text) on a new paragraph
Format ==
    /\ fpc = "new"
    /\ para_runs' = process_text_segments(para_text)
    /\ fpc' = "formatted"
    /\ UNCHANGED <<doc, headings, pc, sections, idx, current_solution_heading,
                   call_vars, para_text, replay_runs>>

\* _process_text_segments on a second paragraph, given the plain text of the
\* first one's runs
Reformat ==
    /\ fpc = "formatted"
    /\ replay_runs' = process_text_segments(RunsText(para_runs))
    /\ fpc' = "replayed"
    /\ UNCHANGED <<doc, headings, pc, sections, idx, current_solution_heading,
                   call_vars, para_text, para_runs>>

NextInline ==
    \/ Format
    \/ Reformat

SpecInline == InitInline /\ [][NextInline]_vars

(***************************************************************************)
(* What the claims speak of.                                               *)
(***************************************************************************)
\* a markdown_to_word call has returned
Done == pc = "idle" /\ ncalls > 0

\* the positions in doc of the blocks markdown_to_word appended, in all its
\* calls on the generator
Converted == (preface + 1)..Len(doc)

\* the positions in doc of the blocks the current (or last) call appended
Emitted == IF ncalls = 0 THEN {} ELSE (start + 1)..Len(doc)

IsHeading(b) == b.style = "Heading"

\* the number of leading '#' characters of a heading line
NominalLevel(line) ==
    LET other == {k \in 1..Len(line) : line[k] # "#"}
    IN  IF other = {} THEN Len(line) ELSE Least(other) - 1

\* the TOC entries the heading blocks stand for: one (nominal level, text)
\* for each heading of nominal level > 1, none for the others
RECURSIVE NominalToc(_)
NominalToc(blocks) ==
    IF blocks = <<>> THEN <<>>
    ELSE LET b == Head(blocks)
         IN  (IF IsHeading(b) /\ NominalLevel(b.source) > 1
              THEN <<(<<NominalLevel(b.source), b.text>>)>> ELSE <<>>)
                 \o NominalToc(Tail(blocks))

\* a line without its leading whitespace
LStrip(s) ==
    LET keep == {k \in 1..Len(s) : ~IsSpace(s[k])}
    IN  IF keep = {} THEN <<>>
        ELSE Slice(s, CHOOSE k \in keep : \A m \in keep : k <= m, Len(s))

\* the lines of a text that are not blank
NonBlankLines(t) == SelectSeq(Split(t, NL), LAMBDA l : Strip(l) # <<>>)

\* a content string with the two ** delimiters of each matched span removed
\* and every other character kept
VisibleText(s) ==
    LET segs == ReSplitBold(s)
    IN  Concat([k \in 1..Len(segs) |->
            IF k % 2 = 0 THEN Slice(segs[k], 3, Len(segs[k]) - 2) ELSE segs[k]])

\* markdown_to_word on a generator of its own: the document and the headings
\* after sections k.. of secs, from document d, headings toc and flag h
RECURSIVE Alone(_, _, _, _, _)
Alone(secs, k, d, toc, h) ==
    IF k > Len(secs) THEN [doc |-> d, headings |-> toc]
    ELSE IF Strip(secs[k]) = <<>> THEN Alone(secs, k + 1, d, toc, h)
    ELSE IF StartsWith(secs[k], <<"#">>)
    THEN LET level == heading_level(secs[k])
             text == heading_text(secs[k])
         IN  Alone(secs, k + 1,
                   Append(d, HeadingBlock(text, adjusted_level(level, text, h),
                                          secs[k])),
                   add_heading_to_toc(toc, level, text),
                   solution_heading_after(h, text))
    ELSE Alone(secs, k + 1, d \o BodyBlocks(secs[k]), toc, h)

(***************************************************************************)
(* The claims.                                                             *)
(***************************************************************************)
\* C1: the TOC holds exactly one entry (nominal level, text) for each heading
\* whose nominal level, the number of its leading '#', is more than 1, and none
\* for a heading of nominal level 1, also when the heading text holds a '#'.
\* Stated for the documents whose every block was made of a single line, so
\* that each heading block is one heading line.
C1_TocByNominalLevel ==
    (\A k \in Converted : ~Contains(doc[k].source, <<NL>>))
        => headings = NominalToc(Slice(doc, preface + 1, Len(doc)))

\* C2: every Heading block markdown_to_word emits has a display level in
\* {1, 2, 3}, whatever the number of '#' in its line.
C2_DisplayLevelInRange ==
    \A k \in Converted : IsHeading(doc[k]) => doc[k].level \in {1, 2, 3}

\* C2 witness: a heading line of more than six '#' has been emitted, at level 2
C2_Witness ==
    \E k \in Converted :
        /\ IsHeading(doc[k])
        /\ heading_level(doc[k].source) > 6
        /\ doc[k].level = 2

\* C3: the texts of the runs, concatenated in order, are the content string
\* with only the delimiters of its matched bold spans removed.
C3_TextPreserved ==
    fpc # "new" => RunsText(para_runs) = VisibleText(para_text)

\* C4: a run is bold only when its token holds an opening ** and a distinct
\* closing ** (length >= 4); every other token is a plain run with the token,
\* markers included, as its text.
C4_BoldOnlyForMatchedPair ==
    fpc # "new" =>
        LET segs == ReSplitBold(para_text)
        IN  /\ Len(para_runs) = Len(segs)
            /\ \A k \in 1..Len(para_runs) :
                 /\ para_runs[k].bold =>
                      /\ Len(segs[k]) >= 4
                      /\ StartsWith(segs[k], <<"*", "*">>)
                      /\ EndsWith(segs[k], <<"*", "*">>)
                 /\ ~para_runs[k].bold => para_runs[k].text = segs[k]

\* C5: a conversion appends exactly one block for each non-blank line of the
\* text, in the order of the lines, each block made of that one line.
C5_OneBlockPerLine ==
    Done =>
        LET lines == NonBlankLines(markdown_text)
        IN  /\ Len(doc) - start = Len(lines)
            /\ \A k \in 1..Len(lines) :
                 start + k <= Len(doc) => doc[start + k].source = lines[k]

\* C6: formatting the concatenated texts of the runs once more gives no bold
\* run.
C6_NoBoldOnReplay ==
    fpc = "replayed" => \A k \in 1..Len(replay_runs) : ~replay_runs[k].bold

\* C7: the blocks and TOC entries a generator holds once it has converted a
\* text are those of converting that text alone (after the application's own
\* blocks), whatever it converted before.
C7_NoStateAcrossCalls ==
    Done =>
        LET alone == Alone(ReSplitHeading(markdown_text), 1,
                           Slice(doc, 1, preface), <<>>, None)
        IN  doc = alone.doc /\ headings = alone.headings

\* C8: within one conversion a heading has display level 3 exactly when its
\* text contains "How It Works", does not contain "Solution", and an earlier
\* heading of the conversion contains "Solution"; every other heading keeps
\* min(level, 2); and during the conversion the flag is set exactly when a
\* heading containing "Solution" has been emitted (it is never cleared).
C8_HowItWorksAfterSolution ==
    /\ \A k \in Emitted : IsHeading(doc[k]) =>
         LET seen == \E m \in Emitted :
                         /\ m < k
                         /\ IsHeading(doc[m])
                         /\ Contains(doc[m].text, Solution)
             how == /\ Contains(doc[k].text, HowItWorks)
                    /\ ~Contains(doc[k].text, Solution)
             n == heading_level(doc[k].source)
         IN  /\ doc[k].level = 3 <=> (how /\ seen)
             /\ ~(how /\ seen) => doc[k].level = (IF n < 2 THEN n ELSE 2)
    /\ pc = "loop" =>
         (Truthy(current_solution_heading) <=>
             \E m \in Emitted :
                 IsHeading(doc[m]) /\ Contains(doc[m].text, Solution))

\* C8 witness: a "Solution" heading, then a heading with neither phrase, then
\* a "How It Works" heading, which got level 3
C8_Witness ==
    /\ Done
    /\ \E a, b, c \in Emitted :
         /\ a < b /\ b < c
         /\ IsHeading(doc[a]) /\ Contains(doc[a].text, Solution)
         /\ IsHeading(doc[b])
         /\ ~Contains(doc[b].text, Solution)
         /\ ~Contains(doc[b].text, HowItWorks)
         /\ IsHeading(doc[c]) /\ Contains(doc[c].text, HowItWorks)
         /\ doc[c].level = 3

\* C9: a body line whose left-trimmed form starts with "- " is a Bullet item
\* whose content is the text after that prefix.
C9_BulletContent ==
    \A k \in Converted :
        (~IsHeading(doc[k]) /\ StartsWith(LStrip(doc[k].source), <<"-", " ">>))
            => /\ doc[k].style = "List Bullet"
               /\ doc[k].content = DropFirst(LStrip(doc[k].source), 2)

\* C10: a body line that is no bullet and whose left-trimmed form starts with
\* digits, a period and a space is a Numbered item whose content is the line
\* without that prefix (with or without the line's leading whitespace).
C10_NumberedContent ==
    \A k \in Converted :
        LET line == doc[k].source
            trimmed == LStrip(line)
            rest == DropFirst(trimmed, NumberedPrefix(trimmed))
            indent == Slice(line, 1, Len(line) - Len(trimmed))
        IN  (/\ ~IsHeading(doc[k])
             /\ ~StartsWith(trimmed, <<"-", " ">>)
             /\ NumberedPrefix(trimmed) > 0)
                => /\ doc[k].style = "List Number"
                   /\ doc[k].content \in {rest, indent \o rest}

====
